---- MODULE Spec2Model ----
(***************************************************************************)
(* Request handling core of the sapper middleware (src/lib/index.js):      *)
(* compose_handlers, set_req_pathname, get_asset_handler,                  *)
(* get_route_handler (find_route / handle_route), get_not_found_handler,   *)
(* and the chains connect_prod and connect_dev make of them.               *)
(*                                                                         *)
(* JavaScript runs one task to completion before the next one starts, so   *)
(* every action below is one task or microtask: everything the code does   *)
(* synchronously from the moment the host (or the promise job queue, or an *)
(* external handler's later callback) enters it until it returns.          *)
(*                                                                         *)
(* Strings are sequences of tokens.  A token is either one of the          *)
(* characters the code looks at ("?", "\n", the five HTML special          *)
(* characters) or a chunk of other characters.                             *)
(***************************************************************************)
EXTENDS Integers, Sequences, FiniteSets, TLC

(***************************************************************************)
(* Bounds of the model.                                                    *)
(***************************************************************************)
\* calls (res.end, next) an endpoint handler makes in one task
MaxOps == 2
\* proceed() calls of one request beyond the first one of each handler
MaxRepeat == 1
\* handlers in a chain given to compose_handlers in the generic specification
MaxHandlers == 3
\* builds the watcher of connect_dev completes
MaxBuilds == 2

(***************************************************************************)
(* Strings.                                                                *)
(***************************************************************************)
\* index of the first element of s that is in set T, 0 when there is none
RECURSIVE IndexFrom(_, _, _)
IndexFrom(s, T, k) ==
  IF k > Len(s) THEN 0
  ELSE IF s[k] \in T THEN k
  ELSE IndexFrom(s, T, k + 1)

\* String.prototype.split('\n')
RECURSIVE split(_)
split(s) ==
  LET k == IndexFrom(s, {"\n"}, 1) IN
    IF k = 0 THEN << s >>
    ELSE << SubSeq(s, 1, k - 1) >> \o split(SubSeq(s, k + 1, Len(s)))

\* Array.prototype.slice(1)
slice1(a) == IF Len(a) = 0 THEN << >> ELSE Tail(a)

\* Array.prototype.join('\n')
RECURSIVE join(_)
join(a) ==
  IF Len(a) = 0 THEN << >>
  ELSE IF Len(a) = 1 THEN a[1]
  ELSE a[1] \o << "\n" >> \o join(Tail(a))

\* the characters escape-html replaces, and what it replaces each by
HtmlSpecial == { "\"", "&", "'", "<", ">" }

escape_char(c) ==
  CASE c = "\"" -> "&quot;"
    [] c = "&"  -> "&amp;"
    [] c = "'"  -> "&#39;"
    [] c = "<"  -> "&lt;"
    [] c = ">"  -> "&gt;"
    [] OTHER    -> c

escape_html(s) == [ k \in 1..Len(s) |-> escape_char(s[k]) ]

\* String.prototype.toLowerCase on the request methods of the model
toLowerCase(m) ==
  CASE m = "GET"    -> "get"
    [] m = "POST"   -> "post"
    [] m = "DELETE" -> "delete"
    [] m = "delete" -> "delete"
    [] OTHER        -> m

\* req.url.replace(/\?.+/, ''): the leftmost "?" that has at least one
\* character other than a line terminator after it is removed together with
\* the characters after it up to the next line terminator
RECURSIVE MatchStart(_, _)
MatchStart(s, k) ==
  IF k >= Len(s) THEN 0
  ELSE IF s[k] = "?" /\ s[k + 1] # "\n" THEN k
  ELSE MatchStart(s, k + 1)

RECURSIVE MatchEnd(_, _)
MatchEnd(s, k) ==
  IF k + 1 > Len(s) \/ s[k + 1] = "\n" THEN k ELSE MatchEnd(s, k + 1)

strip_query(url) ==
  LET a == MatchStart(url, 1) IN
    IF a = 0 THEN url
    ELSE SubSeq(url, 1, a - 1) \o SubSeq(url, MatchEnd(url, a) + 1, Len(url))

(***************************************************************************)
(* Values thrown by external code (route.test, route.exec, require,        *)
(* preload, render, an endpoint handler).  JavaScript lets any value be    *)
(* thrown; the catch callback of find_route reads err (its truthiness),    *)
(* err.name, err.details, err.message, err.stack and '' + err.             *)
(***************************************************************************)
\* the stack V8 gives an Error: "<name>: <message>" and the frames, one a line
StackOf(name, message) == name \o << ": " >> \o message \o << "\n", "    at frame" >>

NewError(name, message) ==
  [ kind |-> "Error", name |-> name, details |-> << >>, message |-> message,
    hasStack |-> TRUE, stack |-> StackOf(name, message),
    str |-> name \o << ": " >> \o message ]

\* throw 'text'
ThrownString(s) ==
  [ kind |-> "string", name |-> << >>, details |-> << >>, message |-> << >>,
    hasStack |-> FALSE, stack |-> << >>, str |-> s ]

\* throw null
ThrownNull ==
  [ kind |-> "null", name |-> << >>, details |-> << >>, message |-> << >>,
    hasStack |-> FALSE, stack |-> << >>, str |-> << "null" >> ]

\* throw { message: m }
ThrownObject(m) ==
  [ kind |-> "object", name |-> << >>, details |-> << >>, message |-> m,
    hasStack |-> FALSE, stack |-> << >>, str |-> << "[object Object]" >> ]

\* no exception
NoErr ==
  [ kind |-> "none", name |-> << >>, details |-> << >>, message |-> << >>,
    hasStack |-> FALSE, stack |-> << >>, str |-> << >> ]

\* the TypeError of reading a property of undefined
TypeErrorUndefined ==
  NewError(<< "TypeError" >>, << "Cannot read property of undefined" >>)

\* what route.test, route.exec and require throw: Error objects
ThrownErrors ==
  { NewError(<< "Error" >>, << "boom" >>),
    NewError(<< "Error" >>, << "no ", "<", "b", ">", "\n", "<", "i", ">" >>) }

\* what the code of a page or endpoint module throws: any value
Thrown ==
  ThrownErrors \cup
  { ThrownString(<< "boom" >>),
    ThrownNull,
    ThrownObject(<< "boom" >>) }

\* JavaScript truthiness of a thrown value
Truthy(err) ==
  /\ err.kind \notin { "null", "none" }
  /\ ~(err.kind = "string" /\ err.str = << >>)

(***************************************************************************)
(* The asset cache (generate_asset_cache, or the watcher's), the route     *)
(* table (route_manager.routes) and the compiled server bundle             *)
(* (require(server.entry)).                                                *)
(***************************************************************************)
MainFile(v) == << "/client/", "main.", v, ".js" >>

AssetCache(v) ==
  [ built |-> TRUE, version |-> v,
    client |->
      [ index          |-> << "index.html of ", v >>,
        service_worker |-> << "service-worker.js of ", v >>,
        chunks         |-> (MainFile(v) :> << "main.js of ", v >>)
                           @@ (<< "/client/", "about.js" >> :> << "about.js of ", v >>),
        main_file      |-> MainFile(v),
        routes         |-> [ id \in { "about", "blog", "api", "slug", "ghost" } |->
                               << "/client/", id, ".js" >> ] ],
    server |-> [ entry |-> v ] ]

\* the value of an object property that is not there
Undefined == << "undefined" >>

\* the asset_cache of connect_dev before it is first assigned: undefined
NoCache == [ built |-> FALSE, version |-> "undefined" ]

\* the builds of the watcher, in order: watcher.ready is a promise of the
\* cache of the build under way, and a new promise once a file has changed
Versions == << "v1", "v2", "v3", "v4" >>

\* chunks[pathname]
Lookup(obj, key) == IF key \in DOMAIN obj THEN obj[key] ELSE Undefined

\* a route: test(pathname) is true on `matches`; exec gives the params
Route(id, type, matches) == [ id |-> id, type |-> type, matches |-> matches ]

OneSegment ==
  { << "/about" >>, << "/blog" >>, << "/api" >>, << "/ghost" >>, << "/nope" >>,
    << "/about", "?" >> }

R_about == Route("about", "page", { << "/about" >> })
R_blog  == Route("blog", "page", { << "/blog" >> })
R_api   == Route("api", "endpoint", { << "/api" >> })
R_ghost == Route("ghost", "page", { << "/ghost" >> })
R_slug  == Route("slug", "page", OneSegment)

\* the route tables of the model: specific routes before the catch-all, the
\* catch-all first, no catch-all, no route
RouteTables ==
  { << R_about, R_blog, R_api, R_slug >>,
    << R_slug, R_about, R_api >>,
    << R_api, R_ghost >>,
    << >> }

\* route.exec(pathname)
exec(route, pathname) == [ route |-> route.id, pathname |-> pathname ]

\* require(server.entry)[route.id]: a page module and whether it has preload,
\* an endpoint module and its exports, or nothing under that id
NoModule == [ defined |-> FALSE, preload |-> FALSE, exports |-> {} ]

ServerEntry(id) ==
  CASE id = "about" -> [ defined |-> TRUE, preload |-> FALSE, exports |-> { "render" } ]
    [] id = "slug"  -> [ defined |-> TRUE, preload |-> FALSE, exports |-> { "render" } ]
    [] id = "blog"  -> [ defined |-> TRUE, preload |-> TRUE, exports |-> { "preload", "render" } ]
    [] id = "api"   -> [ defined |-> TRUE, preload |-> FALSE,
                         exports |-> { "get", "del", "delete" } ]
    [] OTHER        -> NoModule

\* what mod.render(data) returns: { html, head, css }
Rendered ==
  { [ html |-> << "<p>About</p>" >>, head |-> << >>, css |-> << >> ],
    [ html |-> << "<p>Blog</p>" >>, head |-> << "<title>Blog</title>" >>,
      css |-> << "p{color:red}" >> ] }

\* the requests of the model
Urls ==
  { << "/index.html" >>, << "/index.html", "?", "v=2" >>,
    << "/service-worker.js" >>,
    << "/client/", "main.", "v1", ".js" >>, << "/client/", "zz.js" >>,
    << "/about" >>, << "/about", "?", "x=1" >>, << "/about", "?" >>,
    << "/blog" >>, << "/api" >>, << "/ghost" >>, << "/nope", "?", "x=1" >> }

Methods == { "GET", "POST", "DELETE" }

(***************************************************************************)
(* State.                                                                  *)
(***************************************************************************)
Reqs == { "r1", "r2" }

VARIABLES
  handlers,     \* the array given to compose_handlers
  routes,       \* route_manager.routes
  asset_cache,  \* the asset_cache of connect_prod / connect_dev
  watcher,      \* connect_dev: the promises watcher.ready has been, in order
  rq            \* per request: req, res, the cursor i of its composed call, ...

vars == << handlers, routes, asset_cache, watcher, rq >>

HeaderNames == { "Content-Type", "Cache-Control", "Link" }

\* a request before the host has passed it to the composed handler
NewRequest ==
  [ pc      |-> "new",
    req     |-> [ method |-> "", url |-> << >>, pathname |-> Undefined,
                  params |-> exec([ id |-> "" ], Undefined) ],
    res     |-> [ statusCode |-> 200,
                  headers    |-> [ h \in HeaderNames |-> << >> ],
                  sent       |-> 0,
                  chunks     |-> << >>,
                  ends       |-> 0,
                  body       |-> [ kind |-> "none" ] ],
    i       |-> 0,
    wait    |-> 0,
    assigned |-> NoCache,
    reads   |-> << >>,
    resolved_under |-> "",
    trace   |-> << >>,
    pending |-> {},
    dispatch |-> [ at |-> 0, url |-> Undefined, route |-> 0, export |-> "",
                   entry |-> "", main_file |-> Undefined ],
    stream  |-> [ state |-> "off", promise |-> "none",
                  shared |-> [ kind |-> "none" ],
                  outcome |-> << >>, slots |-> << >>, settled |-> << >>,
                  flushed |-> 0 ],
    err     |-> NoErr,
    thrown  |-> FALSE,
    escaped |-> 0 ]

\* an event of the request's trace: what happened, at which index (of
\* handlers; of routes for test and exec), which code did it, a detail
Log(q, op, n, who, arg) ==
  [ q EXCEPT !.trace = Append(@, [ op |-> op, at |-> n, by |-> who, arg |-> arg ]) ]

\* an exception leaves the running code: who threw it, and what
Throw(q, who, err) ==
  [ Log(q, "throw", q.dispatch.at, who, "") EXCEPT !.thrown = TRUE, !.err = err ]

\* the exception, if any, leaves a task in which nothing catches it
Escape(q) ==
  IF q.thrown THEN [ q EXCEPT !.thrown = FALSE, !.escaped = @ + 1 ] ELSE q

\* the asset_cache the code running for request q sees: the one its task has
\* assigned (line 29), if it has, and the one of the state otherwise
Current(q) == IF q.assigned.built THEN q.assigned ELSE asset_cache

\* asset_cache is read by `who`: which cache it gets
Read(q, who) ==
  [ q EXCEPT !.reads = Append(@, [ by |-> who, version |-> Current(q).version ]) ]

(***************************************************************************)
(* The response object of the host (Node's http.ServerResponse).           *)
(***************************************************************************)
setHeader(q, n, who, name, value) ==
  Log([ q EXCEPT !.res.headers[name] = value ], "setHeader", n, who, name)

setStatusCode(q, n, who, code) ==
  Log([ q EXCEPT !.res.statusCode = code ], "statusCode", n, who, "")

\* res.write(chunk): the head goes out with the status code of that moment
write(q, n, who, chunk) ==
  Log([ q EXCEPT !.res.sent = IF @ = 0 THEN q.res.statusCode ELSE @,
                 !.res.chunks = Append(@, chunk) ], "write", n, who, "")

\* res.end(body): the first call sends the response, a later one changes nothing
end(q, n, who, body) ==
  Log([ q EXCEPT !.res.sent = IF @ = 0 THEN q.res.statusCode ELSE @,
                 !.res.body = IF q.res.ends = 0 THEN body ELSE @,
                 !.res.ends = @ + 1 ], "end", n, who, "")

\* templates.render(status, props): an opaque function of its arguments
templates_render(status, props) ==
  [ kind |-> "document", template |-> status, props |-> props ]

Bytes(s) == [ kind |-> "bytes", bytes |-> s ]

ScriptTag(main_file) == << "<script src='" >> \o main_file \o << "'></script>" >>

(***************************************************************************)
(* The handlers and compose_handlers.  An operator takes the request's     *)
(* state q and gives its state when the call returns.                      *)
(***************************************************************************)
RECURSIVE go(_)

\* proceed with the cursor moved past a handler
proceed_skip(q, n, who) ==
  go(Log([ q EXCEPT !.i = @ + 2 ], "proceed", n, who, ""))

\* the continuation compose_handlers gives each handler: () => { i += 1; go(); }
\* n and who say whose continuation was called, and by which code
proceed(q, n, who) ==
  go(Log([ q EXCEPT !.i = @ + 1 ], "proceed", n, who, ""))

set_req_pathname(q, n) ==
  proceed([ q EXCEPT !.req.pathname = strip_query(q.req.url) ], n, "set_req_pathname")

\* the opts connect_prod and connect_dev give get_asset_handler
AssetOpts(name) ==
  CASE name = "index" ->
         [ filter |-> "index", type |-> << "text/html" >>,
           cache |-> << "max-age=600" >> ]
    [] name = "service_worker" ->
         [ filter |-> "service_worker", type |-> << "application/javascript" >>,
           cache |-> << "max-age=600" >> ]
    [] name = "chunks" ->
         [ filter |-> "chunks", type |-> << "application/javascript" >>,
           cache |-> << "max-age=31536000" >> ]

\* opts.filter(pathname)
filter(opts, pathname) ==
  CASE opts.filter = "index"          -> pathname = << "/index.html" >>
    [] opts.filter = "service_worker" -> pathname = << "/service-worker.js" >>
    [] opts.filter = "chunks"         -> Len(pathname) >= 1 /\ pathname[1] = "/client/"

\* opts.fn(pathname) when asset_cache is `cache`
fn_of(cache, opts, pathname) ==
  CASE opts.filter = "index"          -> cache.client.index
    [] opts.filter = "service_worker" -> cache.client.service_worker
    [] opts.filter = "chunks"         -> Lookup(cache.client.chunks, pathname)

\* opts.fn(pathname), read from the asset_cache of the state
fn(opts, pathname) == fn_of(asset_cache, opts, pathname)

\* get_asset_handler going on to next() after it has answered
get_asset_handler_no_return(opts, q, n) ==
  IF ~filter(opts, q.req.pathname) THEN proceed(q, n, "get_asset_handler")
  ELSE LET q1 == Read(setHeader(setHeader(q, n, "get_asset_handler",
                                          "Content-Type", opts.type),
                                n, "get_asset_handler", "Cache-Control", opts.cache),
                      "get_asset_handler")
       IN IF ~Current(q).built
          THEN Throw(q1, "get_asset_handler", TypeErrorUndefined)
          ELSE proceed(end(q1, n, "get_asset_handler",
                           Bytes(fn_of(Current(q), opts, q.req.pathname))),
                       n, "get_asset_handler")

\* reading a property of asset_cache while it is undefined throws
get_asset_handler(opts, q, n) ==
  IF ~filter(opts, q.req.pathname) THEN proceed(q, n, "get_asset_handler")
  ELSE LET q1 == Read(setHeader(setHeader(q, n, "get_asset_handler",
                                          "Content-Type", opts.type),
                                n, "get_asset_handler", "Cache-Control", opts.cache),
                      "get_asset_handler")
       IN IF ~Current(q).built
          THEN Throw(q1, "get_asset_handler", TypeErrorUndefined)
          ELSE end(q1, n, "get_asset_handler",
                   Bytes(fn_of(Current(q), opts, q.req.pathname)))

\* webpack-hot-middleware: it keeps the requests of its event stream and
\* hands on every other request
hot_middleware(q, n) ==
  IF q.req.url = << "/__webpack_hmr" >>
  THEN Log(q, "event-stream", n, "hot_middleware", "")
  ELSE proceed(q, n, "hot_middleware")

\* wait_ready proceeding without waiting for watcher.ready
wait_ready_no_wait(q, n) ==
  proceed(Log([ q EXCEPT !.wait = Len(watcher) ], "wait", n, "wait_ready",
              watcher[Len(watcher)]),
          n, "wait_ready")

\* the second handler of connect_dev up to its return: a callback is
\* registered on the promise watcher.ready is at that moment
wait_ready(q, n) ==
  Log([ q EXCEPT !.wait = Len(watcher), !.pending = @ \cup { "ready" } ],
      "wait", n, "wait_ready", watcher[Len(watcher)])

\* find_route matching the routes before it returns: no route, as the
\* outcome does not matter
find_route_sync(q, n) ==
  proceed([ setHeader(q, n, "find_route", "Content-Type", << "text/html" >>)
              EXCEPT !.dispatch.at = n,
                     !.dispatch.url = q.req.pathname ], n, "find_route")

\* the synchronous part of find_route: the header, and the then-callback
\* queued on the resolved promise
find_route(q, n) ==
  [ setHeader(q, n, "find_route", "Content-Type", << "text/html" >>)
      EXCEPT !.pending = @ \cup { "route" },
             !.dispatch.at = n,
             !.dispatch.url = q.req.pathname ]

\* handle_not_found rendering the stripped pathname in place of req.url
handle_not_found_pathname(q, n) ==
  LET q1 == setStatusCode(Read(q, "handle_not_found"), n, "handle_not_found", 404) IN
    IF ~Current(q).built THEN Throw(q1, "handle_not_found", TypeErrorUndefined)
    ELSE end(q1, n, "handle_not_found",
             templates_render(404,
               [ title   |-> << "Not found" >>,
                 status  |-> 404,
                 method  |-> q.req.method,
                 scripts |-> ScriptTag(Current(q).client.main_file),
                 url     |-> q.req.pathname ]))

handle_not_found(q, n) ==
  LET q1 == setStatusCode(Read(q, "handle_not_found"), n, "handle_not_found", 404) IN
    IF ~Current(q).built THEN Throw(q1, "handle_not_found", TypeErrorUndefined)
    ELSE end(q1, n, "handle_not_found",
             templates_render(404,
               [ title   |-> << "Not found" >>,
                 status  |-> 404,
                 method  |-> q.req.method,
                 scripts |-> ScriptTag(Current(q).client.main_file),
                 url     |-> q.req.url ]))

\* handler(req, res, () => { i += 1; go(); })
call(handler, q, n) ==
  CASE handler = "set_req_pathname" -> set_req_pathname(q, n)
    [] handler \in { "index", "service_worker", "chunks" } ->
         get_asset_handler(AssetOpts(handler), q, n)
    [] handler = "find_route"       -> find_route(q, n)
    [] handler = "handle_not_found" -> handle_not_found(q, n)
    [] handler = "hot_middleware"   -> hot_middleware(q, n)
    [] handler = "wait_ready"       -> wait_ready(q, n)
    [] OTHER                        -> q

\* go with the fallback called one position early, in place of the last handler
go_early_fallback(q) ==
  IF q.i + 1 < Len(handlers)
  THEN call(handlers[q.i + 1], Log(q, "call", q.i, "go", handlers[q.i + 1]), q.i)
  ELSE Log(q, "fallback", q.i, "go", "")

go(q) ==
  IF q.i + 1 <= Len(handlers)
  THEN call(handlers[q.i + 1], Log(q, "call", q.i, "go", handlers[q.i + 1]), q.i)
  ELSE Log(q, "fallback", q.i, "go", "")

\* the array connect_prod gives compose_handlers
ProdHandlers ==
  << "set_req_pathname", "index", "service_worker", "chunks", "find_route",
     "handle_not_found" >>

\* the array connect_dev gives compose_handlers
DevHandlers ==
  << "hot_middleware", "wait_ready", "set_req_pathname", "index", "service_worker",
     "chunks", "find_route", "handle_not_found" >>

(***************************************************************************)
(* get_route_handler.  What the external code called during one task does  *)
(* is drawn by the action and passed down as c:                            *)
(*   c.fault    the call that throws: "none", "test" (of route c.k),       *)
(*              "exec", "load" (require), "preload", "render"              *)
(*   c.err      the value thrown                                           *)
(*   c.rendered what mod.render returns                                    *)
(*   c.script   what an endpoint handler does before it returns or throws: *)
(*              a sequence of "end" (res.end) and "next" (next())          *)
(*   c.term     how the endpoint handler's call ends: "return", "throw",   *)
(*              "later" (it returns and goes on in a later task)           *)
(***************************************************************************)
\* method_export without the substitution of del for delete
method_export_plain(method) == toLowerCase(method)

\* the export name of an endpoint for a request method
method_export(method) ==
  LET m == toLowerCase(method) IN IF m = "delete" THEN "del" ELSE m

\* the endpoint handler's own code: external
RECURSIVE run_script(_, _)
run_script(q, script) ==
  IF script = << >> THEN q
  ELSE run_script(
         IF Head(script) = "end"
         THEN end(q, q.dispatch.at, "endpoint", Bytes(<< "endpoint response" >>))
         ELSE proceed(q, q.dispatch.at, "endpoint"),
         Tail(script))

\* the slots of the document template, in the order of the template
SlotNames == << "scripts", "html", "head", "styles" >>

Slots == { SlotNames[k] : k \in 1..Len(SlotNames) }

\* the part of the document template after slot k (before the first: k = 0)
TemplatePart(k) == << "template part ", ToString(k) >>

\* templates.stream(res, 200, slots) up to its first wait: the part of the
\* document before the first slot is written at once
templates_stream(q, n) ==
  [ write(q, n, "templates.stream", TemplatePart(0))
      EXCEPT !.stream.state = "waiting",
             !.stream.promise = "pending",
             !.stream.outcome = [ k \in 1..Len(SlotNames) |-> "pending" ],
             !.stream.slots = [ k \in 1..Len(SlotNames) |-> Undefined ],
             !.pending = @ \cup { "preload", "stream" } ]

LinkHeader(client, id) ==
  << "<" >> \o client.main_file \o << ">;rel=\"preload\";as=\"script\", <" >>
    \o client.routes[id] \o << ">;rel=\"preload\";as=\"script\"" >>

HeadSlot(head) ==
  << "<noscript id='sapper-head-start'></noscript>" >> \o head
    \o << "<noscript id='sapper-head-end'></noscript>" >>

StylesSlot(css) ==
  IF css # << >> THEN << "<style>" >> \o css \o << "</style>" >> ELSE << >>

handle_page(route, k, q, c, cache) ==
  LET mod == ServerEntry(route.id)
      q1  == setHeader(q, q.dispatch.at, "handle_route", "Link",
                       LinkHeader(cache.client, route.id))
  IN
    IF ~mod.defined THEN Throw(q1, "handle_route", TypeErrorUndefined)
    ELSE IF mod.preload
    THEN LET q2 == Log(q1, "preload", q.dispatch.at, "handle_route", "") IN
           IF c.fault = "preload" THEN Throw(q2, "preload", c.err)
           ELSE templates_stream(q2, q.dispatch.at)
    ELSE LET q2 == Log(q1, "render", q.dispatch.at, "handle_route", "") IN
         IF c.fault = "render" THEN Throw(q2, "render", c.err)
         ELSE end(q2, q.dispatch.at, "handle_route",
                  templates_render(200,
                    [ scripts |-> ScriptTag(cache.client.main_file),
                      html    |-> c.rendered.html,
                      head    |-> HeadSlot(c.rendered.head),
                      styles  |-> StylesSlot(c.rendered.css) ]))

\* handle_endpoint answering 405 itself when the export is missing
handle_endpoint_405(route, k, q, c) ==
  LET mod  == ServerEntry(route.id)
      name == method_export(q.req.method)
  IN
    IF ~mod.defined THEN Throw(q, "handle_route", TypeErrorUndefined)
    ELSE IF name \in mod.exports
    THEN LET q1 == run_script(
                     Log([ q EXCEPT !.dispatch.export = name ],
                         "handler", q.dispatch.at, "handle_route", name),
                     c.script)
         IN CASE c.term = "throw" -> Throw(q1, "endpoint", c.err)
              [] c.term = "later" -> [ q1 EXCEPT !.pending = @ \cup { "endpoint" } ]
              [] OTHER            -> q1
    ELSE end(setStatusCode(q, q.dispatch.at, "handle_route", 405),
             q.dispatch.at, "handle_route", [ kind |-> "none" ])

handle_endpoint(route, k, q, c) ==
  LET mod  == ServerEntry(route.id)
      name == method_export(q.req.method)
  IN
    IF ~mod.defined THEN Throw(q, "handle_route", TypeErrorUndefined)
    ELSE IF name \in mod.exports
    THEN LET q1 == run_script(
                     Log([ q EXCEPT !.dispatch.export = name ],
                         "handler", q.dispatch.at, "handle_route", name),
                     c.script)
         IN CASE c.term = "throw" -> Throw(q1, "endpoint", c.err)
              [] c.term = "later" -> [ q1 EXCEPT !.pending = @ \cup { "endpoint" } ]
              [] OTHER            -> q1
    ELSE proceed(q, q.dispatch.at, "handle_route")

handle_route(route, k, q, c, cache) ==
  LET q0 == Log([ q EXCEPT !.dispatch.route = k,
                           !.dispatch.entry = cache.server.entry,
                           !.dispatch.main_file = cache.client.main_file ],
                "exec", k, "handle_route", "")
  IN
  IF c.fault = "exec" THEN Throw(q0, "exec", c.err)
  ELSE LET q1 == [ q0 EXCEPT !.req.params = exec(route, q.req.pathname) ]
       IN IF c.fault = "load" THEN Throw(q1, "require", c.err)
          ELSE IF route.type = "page" THEN handle_page(route, k, q1, c, cache)
          ELSE handle_endpoint(route, k, q1, c)

\* the loop of the then-callback of find_route, from route k on
RECURSIVE scan(_, _, _)

\* scan going past a matching route when a later route matches too
scan_last_match(q, k, c) ==
  IF k > Len(routes) THEN proceed(q, q.dispatch.at, "find_route")
  ELSE LET q1 == Log(q, "test", k, "find_route", "") IN
         IF c.fault = "test" /\ c.k = k THEN Throw(q1, "test", c.err)
         ELSE IF /\ q.dispatch.url \in routes[k].matches
                 /\ \A j \in (k + 1)..Len(routes) : q.dispatch.url \notin routes[j].matches
         THEN IF ~Current(q).built
              THEN Throw(Read(q1, "find_route"), "find_route", TypeErrorUndefined)
              ELSE handle_route(routes[k], k, Read(q1, "find_route"), c, Current(q))
         ELSE scan(q1, k + 1, c)

scan(q, k, c) ==
  IF k > Len(routes) THEN proceed(q, q.dispatch.at, "find_route")
  ELSE LET q1 == Log(q, "test", k, "find_route", "") IN
         IF c.fault = "test" /\ c.k = k THEN Throw(q1, "test", c.err)
         ELSE IF q.dispatch.url \in routes[k].matches
         THEN IF ~Current(q).built
              THEN Throw(Read(q1, "find_route"), "find_route", TypeErrorUndefined)
              ELSE handle_route(routes[k], k, Read(q1, "find_route"), c, Current(q))
         ELSE scan(q1, k + 1, c)

\* the catch-callback of find_route.  Reading err.stack.split of a value that
\* is truthy and has no stack throws a TypeError inside the callback: the
\* promise it returns is rejected and nothing handles it
ErrorTitle(err) ==
  IF Truthy(err) /\ err.name # << >> THEN err.name ELSE << "Internal server error" >>

ErrorText(err) ==
  IF ~Truthy(err) THEN << "Unknown error" >>
  ELSE IF err.details # << >> THEN err.details
  ELSE IF err.message # << >> THEN err.message
  ELSE IF err.str # << >> THEN err.str
  ELSE << "Unknown error" >>

ErrorStack(err) ==
  IF Truthy(err) THEN join(slice1(split(err.stack))) ELSE << >>

catch(q) ==
  LET q1 == setStatusCode(q, q.dispatch.at, "catch", 500) IN
    IF Truthy(q.err) /\ ~q.err.hasStack
    THEN [ q1 EXCEPT !.escaped = @ + 1 ]
    ELSE end(q1, q.dispatch.at, "catch",
             templates_render(500,
               [ title |-> ErrorTitle(q.err),
                 url   |-> q.dispatch.url,
                 error |-> escape_html(ErrorText(q.err)),
                 stack |-> ErrorStack(q.err) ]))

(***************************************************************************)
(* The page with preload: the callback of lines 146-151 and the four slot  *)
(* promises made from it.  c.settle says whether the promise of            *)
(* mod.preload(req) is fulfilled (with c.preloaded) or rejected (with      *)
(* c.err).                                                                 *)
(***************************************************************************)
Preloaded ==
  { [ name |-> "post", serializable |-> TRUE ],
    [ name |-> "cyclic", serializable |-> FALSE ] }

\* serialize(data) of serialize-javascript, which throws on some values
serialize(data) == << "serialized ", data.name >>

\* try_serialize handing on what serialize makes of a value it throws on
try_serialize_unguarded(data) == serialize(data)

\* try_serialize: null (here the empty string, falsy as well) when serialize throws
try_serialize(data) == IF data.serializable THEN serialize(data) ELSE << >>

ScriptsSlot(serialized, main_file) ==
  IF serialized # << >>
  THEN << "<script>__SAPPER__ = { preloaded: " >> \o serialized \o << " };</script>" >>
         \o ScriptTag(main_file)
  ELSE ScriptTag(main_file)

\* the callback of lines 146-151 on the promise of mod.preload(req): the
\* value `promise` settles with, shared by the four slot callbacks
preload_then(q, c) ==
  IF c.settle = "reject"
  THEN [ Log(q, "throw", q.dispatch.at, "preload", "")
           EXCEPT !.stream.promise = "rejected", !.err = c.err ]
  ELSE LET serialized == try_serialize(c.preloaded)
           data == [ params |-> q.req.params, preloaded |-> c.preloaded.name ]
           q1 == Log(Log([ q EXCEPT !.resolved_under = asset_cache.version ],
                         "resolve", q.dispatch.at, "preload", c.preloaded.name),
                     "render", q.dispatch.at, "preload_then", c.preloaded.name)
       IN
         IF c.fault = "render"
         THEN [ Log(q1, "throw", q.dispatch.at, "render", "")
                  EXCEPT !.stream.promise = "rejected", !.err = c.err ]
         ELSE [ q1 EXCEPT !.stream.promise = "fulfilled",
                          !.stream.shared =
                            [ kind |-> "result", rendered |-> c.rendered,
                              serialized |-> serialized, data |-> data ] ]

\* what the callback of slot k makes of the shared value (lines 154-165)
SlotValue(k, shared, main_file) ==
  CASE k = 1 -> ScriptsSlot(shared.serialized, main_file)
    [] k = 2 -> shared.rendered.html
    [] k = 3 -> HeadSlot(shared.rendered.head)
    [] k = 4 -> StylesSlot(shared.rendered.css)

\* slot_then with a scripts slot that does not depend on the shared value
slot_then_scripts_alone(q, k) ==
  LET q1 == Log(q, "settle", q.dispatch.at, "slot", SlotNames[k]) IN
    IF q.stream.promise = "rejected" /\ k # 1
    THEN [ q1 EXCEPT !.stream.outcome[k] = "rejected",
                     !.stream.settled = Append(@, k) ]
    ELSE [ q1 EXCEPT !.stream.outcome[k] = "resolved",
                     !.stream.slots[k] =
                       IF q.stream.promise = "rejected"
                       THEN ScriptTag(q.dispatch.main_file)
                       ELSE SlotValue(k, q.stream.shared, q.dispatch.main_file),
                     !.stream.settled = Append(@, k) ]

\* slot_then with the entry script of the asset_cache of the moment
slot_then_current_cache(q, k) ==
  LET q1 == Log(q, "settle", q.dispatch.at, "slot", SlotNames[k]) IN
    IF q.stream.promise = "rejected"
    THEN [ q1 EXCEPT !.stream.outcome[k] = "rejected",
                     !.stream.settled = Append(@, k) ]
    ELSE [ q1 EXCEPT !.stream.outcome[k] = "resolved",
                     !.stream.slots[k] =
                       SlotValue(k, q.stream.shared, Current(q).client.main_file),
                     !.stream.settled = Append(@, k) ]

\* promise.then(callback of slot k): the slot promise is rejected when
\* `promise` is, and resolved with the callback's value otherwise
slot_then(q, k) ==
  LET q1 == Log(q, "settle", q.dispatch.at, "slot", SlotNames[k]) IN
    IF q.stream.promise = "rejected"
    THEN [ q1 EXCEPT !.stream.outcome[k] = "rejected",
                     !.stream.settled = Append(@, k) ]
    ELSE [ q1 EXCEPT !.stream.outcome[k] = "resolved",
                     !.stream.slots[k] =
                       SlotValue(k, q.stream.shared, q.dispatch.main_file),
                     !.stream.settled = Append(@, k) ]

\* the slot templates.stream is waiting for
Awaited(q) == q.stream.flushed + 1

\* templates.stream writing the slots in the order in which they settled
stream_step_completion_order(q) ==
  IF q.stream.outcome[Awaited(q)] = "rejected"
  THEN [ q EXCEPT !.stream.state = "rejected",
                  !.pending = (@ \ { "stream" }) \cup { "catch" } ]
  ELSE LET k  == Awaited(q)
           s  == q.stream.settled[k]
           q1 == write(write(Log(q, "flush", q.dispatch.at, "templates.stream",
                                 SlotNames[s]),
                             q.dispatch.at, "templates.stream", q.stream.slots[s]),
                       q.dispatch.at, "templates.stream", TemplatePart(k))
           q2 == [ q1 EXCEPT !.stream.flushed = k ]
       IN IF k < Len(SlotNames) THEN q2
          ELSE [ end(q2, q.dispatch.at, "templates.stream", [ kind |-> "none" ])
                   EXCEPT !.stream.state = "done", !.pending = @ \ { "stream" } ]

\* templates.stream going on after the slot it waited for has settled: the
\* slot and the part of the document after it are written, the response is
\* ended after the last one; a rejected slot rejects the promise
\* templates.stream returned, which the then-callback of find_route had
\* returned: its catch-callback is queued
stream_step(q) ==
  IF q.stream.outcome[Awaited(q)] = "rejected"
  THEN [ q EXCEPT !.stream.state = "rejected",
                  !.pending = (@ \ { "stream" }) \cup { "catch" } ]
  ELSE LET k  == Awaited(q)
           q1 == write(write(Log(q, "flush", q.dispatch.at, "templates.stream",
                                 SlotNames[k]),
                             q.dispatch.at, "templates.stream", q.stream.slots[k]),
                       q.dispatch.at, "templates.stream", TemplatePart(k))
           q2 == [ q1 EXCEPT !.stream.flushed = k ]
       IN IF k < Len(SlotNames) THEN q2
          ELSE [ end(q2, q.dispatch.at, "templates.stream", [ kind |-> "none" ])
                   EXCEPT !.stream.state = "done", !.pending = @ \ { "stream" } ]

(***************************************************************************)
(* Choices of the external code.                                           *)
(***************************************************************************)
Scripts == UNION { [ 1..n -> { "end", "next" } ] : n \in 0..MaxOps }

Quiet ==
  [ fault |-> "none", k |-> 0, err |-> NoErr, rendered |-> CHOOSE x \in Rendered : TRUE,
    script |-> << >>, term |-> "return", settle |-> "resolve",
    preloaded |-> CHOOSE x \in Preloaded : TRUE ]

\* for the then-callback of find_route
RouteChoices ==
  { [ Quiet EXCEPT !.rendered = x ] : x \in Rendered }
    \cup { [ Quiet EXCEPT !.script = s, !.term = t ] :
             s \in Scripts, t \in { "return", "later" } }
    \cup { [ Quiet EXCEPT !.script = s, !.term = "throw", !.err = e ] :
             s \in Scripts, e \in Thrown }
    \cup { [ Quiet EXCEPT !.fault = f, !.err = e ] :
             f \in { "preload", "render" }, e \in Thrown }
    \cup { [ Quiet EXCEPT !.fault = f, !.err = e ] :
             f \in { "exec", "load" }, e \in ThrownErrors }
    \cup { [ Quiet EXCEPT !.fault = "test", !.k = k, !.err = e ] :
             k \in 1..Len(routes), e \in ThrownErrors }

\* for the callback on the promise of mod.preload(req)
PreloadChoices ==
  { [ Quiet EXCEPT !.rendered = x, !.preloaded = p ] : x \in Rendered, p \in Preloaded }
    \cup { [ Quiet EXCEPT !.settle = "reject", !.err = e ] : e \in Thrown }
    \cup { [ Quiet EXCEPT !.fault = "render", !.err = e, !.preloaded = p ] :
             e \in Thrown, p \in Preloaded }

(***************************************************************************)
(* Actions: one per task.                                                  *)
(***************************************************************************)
\* a job of the request is in the promise job queue: a callback on a promise
\* that has settled
JobPending(q) ==
  \/ q.pending \cap ({ "route", "catch" } \cup Slots) # {}
  \/ "ready" \in q.pending /\ watcher[q.wait] = "resolved"
  \/ "stream" \in q.pending /\ q.stream.outcome[Awaited(q)] # "pending"

\* the promise job queue is empty: the host starts a task only then
Idle == \A r \in DOMAIN rq : ~JobPending(rq[r])

\* the host calls the composed handler: middleware(req, res, next)
Arrive(r, U, M) ==
  /\ rq[r].pc = "new"
  /\ Idle
  /\ \E url \in U, method \in M :
       rq' = [ rq EXCEPT ![r] =
                 Escape(go([ NewRequest EXCEPT !.pc = "open", !.req.url = url,
                                               !.req.method = method ])) ]
  /\ UNCHANGED << handlers, routes, asset_cache, watcher >>

\* the then-callback of find_route (lines 203-210); an exception it throws
\* queues the catch-callback
RouteTask(r, Choices) ==
  /\ "route" \in rq[r].pending
  /\ \E c \in Choices :
       LET q == scan(Log([ rq[r] EXCEPT !.pending = @ \ { "route" } ],
                         "then", rq[r].dispatch.at, "find_route", ""), 1, c) IN
         rq' = [ rq EXCEPT ![r] =
                   IF q.thrown
                   THEN [ q EXCEPT !.thrown = FALSE, !.pending = @ \cup { "catch" } ]
                   ELSE q ]
  /\ UNCHANGED << handlers, routes, asset_cache, watcher >>

\* the catch-callback of find_route (lines 211-219)
CatchTask(r) ==
  /\ "catch" \in rq[r].pending
  /\ rq' = [ rq EXCEPT ![r] = catch([ rq[r] EXCEPT !.pending = @ \ { "catch" } ]) ]
  /\ UNCHANGED << handlers, routes, asset_cache, watcher >>

\* the promise of mod.preload(req) settles (lines 146-151)
PreloadTask(r, Choices) ==
  /\ "preload" \in rq[r].pending
  /\ \E c \in Choices :
       rq' = [ rq EXCEPT ![r] =
                 preload_then([ rq[r] EXCEPT !.pending = (@ \ { "preload" })
                                                           \cup Slots ], c) ]
  /\ UNCHANGED << handlers, routes, asset_cache, watcher >>

\* the callback of one of the four slot promises (lines 154-165); the four
\* are run in any order
SlotTask(r) ==
  /\ \E k \in 1..Len(SlotNames) :
       /\ SlotNames[k] \in rq[r].pending
       /\ rq' = [ rq EXCEPT ![r] =
                   slot_then([ rq[r] EXCEPT !.pending = @ \ { SlotNames[k] } ], k) ]
  /\ UNCHANGED << handlers, routes, asset_cache, watcher >>

\* templates.stream after the slot promise it waited for has settled
StreamTask(r) ==
  /\ "stream" \in rq[r].pending
  /\ rq[r].stream.outcome[Awaited(rq[r])] # "pending"
  /\ rq' = [ rq EXCEPT ![r] = stream_step(rq[r]) ]
  /\ UNCHANGED << handlers, routes, asset_cache, watcher >>

\* an endpoint handler that returned goes on in a later task; nothing
\* handles what it throws there
EndpointTask(r) ==
  /\ "endpoint" \in rq[r].pending
  /\ \E s \in Scripts, t \in { "return", "throw" } :
       LET q == run_script([ rq[r] EXCEPT !.pending = @ \ { "endpoint" } ], s) IN
         rq' = [ rq EXCEPT ![r] =
                   IF t = "throw"
                   THEN [ Log(Escape(q), "throw", q.dispatch.at, "endpoint", "later")
                            EXCEPT !.escaped = @ + 1 ]
                   ELSE Escape(q) ]
  /\ UNCHANGED << handlers, routes, asset_cache, watcher >>

\* events of trace t with the given op
Events(t, op) == { k \in 1..Len(t) : t[k].op = op }

\* the number of times the continuation of handler n was called
Proceeds(t, n) == Cardinality({ k \in Events(t, "proceed") : t[k].at = n })

\* the calls of a continuation that had been called before
Repeats(t) ==
  Cardinality(Events(t, "proceed"))
    - Cardinality({ t[k].at : k \in Events(t, "proceed") })

\* ExtProceed with one cursor for all the requests of the composed handler
ExtProceed_shared_cursor(r) ==
  /\ \E n \in 0..(Len(handlers) - 1) :
       /\ handlers[n + 1] = "ext"
       /\ \E k \in Events(rq[r].trace, "call") : rq[r].trace[k].at = n
       /\ Proceeds(rq[r].trace, n) = 0 \/ Repeats(rq[r].trace) < MaxRepeat
       /\ rq' = [ x \in Reqs |->
                   IF x = r THEN Escape(proceed(rq[r], n, "ext"))
                   ELSE IF rq[x].pc = "open" THEN [ rq[x] EXCEPT !.i = @ + 1 ]
                   ELSE rq[x] ]
  /\ UNCHANGED << handlers, routes, asset_cache, watcher >>

\* an external handler of the chain, called for the request, calls the
\* continuation it was given (at once or in a later task, once or again)
ExtProceed(r) ==
  /\ \E n \in 0..(Len(handlers) - 1) :
       /\ handlers[n + 1] = "ext"
       /\ \E k \in Events(rq[r].trace, "call") : rq[r].trace[k].at = n
       /\ Proceeds(rq[r].trace, n) = 0 \/ Repeats(rq[r].trace) < MaxRepeat
       /\ rq' = [ rq EXCEPT ![r] = Escape(proceed(rq[r], n, "ext")) ]
  /\ UNCHANGED << handlers, routes, asset_cache, watcher >>

(***************************************************************************)
(* Specifications.                                                         *)
(***************************************************************************)
\* connect_prod.  Every call of the composed handler has its own req, res and
\* cursor i, and the handlers of connect_prod only read asset_cache and
\* routes: one request at a time covers what a request can do there.
\* Requests in flight together are the matter of SpecCompose.
ProdReqs == { "r1" }

Init ==
  /\ handlers = ProdHandlers
  /\ routes \in RouteTables
  /\ asset_cache = AssetCache("v1")
  /\ watcher = << >>
  /\ rq = [ r \in ProdReqs |-> NewRequest ]

Next ==
  \E r \in ProdReqs :
    \/ Arrive(r, Urls, Methods)
    \/ RouteTask(r, RouteChoices)
    \/ CatchTask(r)
    \/ PreloadTask(r, PreloadChoices)
    \/ SlotTask(r)
    \/ StreamTask(r)
    \/ EndpointTask(r)

Spec == Init /\ [][Next]_vars

\* the first build of the watcher, or a rebuild, completes: watcher.ready is
\* resolved with the cache of that build
BuildDone ==
  /\ Idle
  /\ Len(watcher) > 0
  /\ watcher[Len(watcher)] = "pending"
  /\ watcher' = [ watcher EXCEPT ![Len(watcher)] = "resolved" ]
  /\ UNCHANGED << handlers, routes, asset_cache, rq >>

\* a source file changes: watcher.ready becomes a new promise, of the cache
\* of the rebuild
Invalidate ==
  /\ Idle
  /\ Len(watcher) > 0
  /\ Len(watcher) < MaxBuilds
  /\ watcher[Len(watcher)] = "resolved"
  /\ watcher' = Append(watcher, "pending")
  /\ UNCHANGED << handlers, routes, asset_cache, rq >>

\* the callback of the second handler of connect_dev (lines 28-31), on the
\* promise the request waited for: asset_cache = cache; next().  What next()
\* runs reads the asset_cache just assigned.
ReadyTask(r) ==
  /\ "ready" \in rq[r].pending
  /\ watcher[rq[r].wait] = "resolved"
  /\ asset_cache' = AssetCache(Versions[rq[r].wait])
  /\ UNCHANGED << handlers, routes, watcher >>
  /\ \E n \in { k \in 0..(Len(handlers) - 1) : handlers[k + 1] = "wait_ready" } :
       rq' = [ rq EXCEPT ![r] =
                 [ Escape(proceed([ rq[r] EXCEPT !.pending = @ \ { "ready" },
                                                 !.assigned = asset_cache' ],
                                  n, "wait_ready"))
                     EXCEPT !.assigned = NoCache ] ]

\* connect_dev, with two requests in flight: one for a page or an asset, one
\* for an asset, an unknown path or the event stream of the hot middleware;
\* the modules of the application are those of one route table and do not
\* throw, preload excepted
DevRoutes == << R_about, R_blog, R_api >>

DevUrls(r) ==
  IF r = "r1" THEN { << "/blog" >>, << "/index.html" >> }
  ELSE { << "/index.html" >>, << "/nope" >>, << "/__webpack_hmr" >> }

DevPreloadChoices ==
  { Quiet, [ Quiet EXCEPT !.settle = "reject", !.err = NewError(<< "Error" >>, << "boom" >>) ] }

InitDev ==
  /\ handlers = DevHandlers
  /\ routes = DevRoutes
  /\ asset_cache = NoCache
  /\ watcher = << "pending" >>
  /\ rq = [ r \in Reqs |-> NewRequest ]

NextDev ==
  \/ BuildDone
  \/ Invalidate
  \/ \E r \in Reqs :
       \/ Arrive(r, DevUrls(r), { "GET" })
       \/ ReadyTask(r)
       \/ RouteTask(r, { Quiet })
       \/ CatchTask(r)
       \/ PreloadTask(r, DevPreloadChoices)
       \/ SlotTask(r)
       \/ StreamTask(r)

SpecDev == InitDev /\ [][NextDev]_vars

\* compose_handlers over any handlers
ExtChains == UNION { [ 1..n -> { "ext" } ] : n \in 0..MaxHandlers }

InitCompose ==
  /\ handlers \in ExtChains
  /\ routes = << >>
  /\ asset_cache = AssetCache("v1")
  /\ watcher = << >>
  /\ rq = [ r \in Reqs |-> NewRequest ]

NextCompose ==
  \E r \in Reqs :
    \/ Arrive(r, { << "/" >> }, { "GET" })
    \/ ExtProceed(r)

SpecCompose == InitCompose /\ [][NextCompose]_vars

(***************************************************************************)
(* Claims about compose_handlers (SpecCompose).                            *)
(***************************************************************************)
Trace(r) == rq[r].trace

\* op happened at index n among the first k events of trace t
Before(t, k, op, n) == \E j \in 1..(k - 1) : t[j].op = op /\ t[j].at = n

\* handler N+1 starts only after handler N called proceed(), and nothing
\* after a handler that has not called proceed() is invoked
Sequential(t) ==
  /\ \A k \in Events(t, "call") :
       t[k].at >= 1 => Before(t, k, "proceed", t[k].at - 1)
  /\ \A n \in 0..(Len(handlers) - 1) :
       Proceeds(t, n) = 0 =>
         \A k \in Events(t, "call") \cup Events(t, "fallback") : t[k].at <= n

\* C1 as stated: for every request and every index N, handler N+1 never
\* starts before handler N has called its proceed(), and if handler N never
\* calls proceed() no handler after N and not the fallback is ever invoked.
C1_Original == \A r \in Reqs : Sequential(Trace(r))

\* C1 as amended: the same, for a request none of whose handlers has called
\* its proceed() more than once.
C1_Sequential ==
  \A r \in Reqs :
    (\A n \in 0..(Len(handlers) - 1) : Proceeds(Trace(r), n) <= 1)
      => Sequential(Trace(r))

\* a request whose three handlers have started one after the other, each
\* after its predecessor's only proceed(), the last one not having called it
C1_Witness ==
  \E r \in Reqs :
    /\ Len(handlers) = 3
    /\ \A n \in 0..2 : \E k \in Events(Trace(r), "call") : Trace(r)[k].at = n
    /\ Proceeds(Trace(r), 0) = 1 /\ Proceeds(Trace(r), 1) = 1
    /\ Proceeds(Trace(r), 2) = 0
    /\ Events(Trace(r), "fallback") = {}

\* the event that follows proceed(): the handler under the cursor is called
\* and, when the cursor has passed the last handler, the fallback and no handler
AfterCursor(t, k) ==
  /\ k <= Len(t)
  /\ t[k].at = Cardinality({ j \in Events(t, "proceed") : j < k })
  /\ t[k].op = IF t[k].at < Len(handlers) THEN "call" ELSE "fallback"

\* the trace of k handlers that each call proceed() once, in order
RECURSIVE InOrder(_, _)
InOrder(t, n) ==
  IF n = Len(handlers) THEN Len(t) = 2 * n + 1 /\ t[2 * n + 1].op = "fallback"
  ELSE /\ t[2 * n + 1].op = "call" /\ t[2 * n + 1].at = n
       /\ t[2 * n + 2].op = "proceed" /\ t[2 * n + 2].at = n
       /\ InOrder(t, n + 1)

\* C2: the cursor starts at the first handler and advances exactly once per
\* proceed(); past the last handler the fallback is called and no handler;
\* with k handlers that each call proceed() exactly once the fallback is
\* invoked exactly once, after all k handlers have run in order.
C2_Cursor ==
  \A r \in Reqs :
    rq[r].pc = "open" =>
      /\ rq[r].i = Cardinality(Events(Trace(r), "proceed"))
      /\ AfterCursor(Trace(r), 1)
      /\ \A k \in Events(Trace(r), "proceed") : AfterCursor(Trace(r), k + 1)
      /\ \A k \in Events(Trace(r), "call") \cup Events(Trace(r), "fallback") :
           k = 1 \/ Trace(r)[k - 1].op = "proceed"
      /\ (\A n \in 0..(Len(handlers) - 1) : Proceeds(Trace(r), n) = 1)
           => InOrder(Trace(r), 0)

\* three handlers have each called proceed() once and the fallback has run
C2_Witness ==
  \E r \in Reqs :
    /\ Len(handlers) = 3
    /\ \A n \in 0..2 : Proceeds(Trace(r), n) = 1
    /\ Cardinality(Events(Trace(r), "fallback")) = 1
    /\ rq[r].i = 3

(***************************************************************************)
(* Claims about the middleware of connect_prod (Spec).                     *)
(***************************************************************************)
\* every task of the request has run
Settled(q) == q.pc = "open" /\ q.pending = {}

\* the events of trace t done by the code `who`
By(t, who) == { k \in 1..Len(t) : t[k].by = who }

\* an exception was thrown by `who` during the dispatch of the request
Threw(t, who) == \E k \in Events(t, "throw") : t[k].by = who

AssetIndexes == { n \in 0..(Len(handlers) - 1) :
                    handlers[n + 1] \in { "index", "service_worker", "chunks" } }

\* the asset handler at index n found its predicate false: it has called
\* proceed() and done nothing else
Delegated(t, n) ==
  \A k \in By(t, "get_asset_handler") : t[k].at = n => t[k].op = "proceed"

\* the asset handler at index n, called as event k, found its predicate true:
\* the two headers, the body, and nothing after that for the request
Answered(q, k, opts) ==
  LET t == q.trace IN
    /\ Len(t) = k + 3
    /\ t[k + 1].op = "setHeader" /\ t[k + 1].arg = "Content-Type"
    /\ t[k + 2].op = "setHeader" /\ t[k + 2].arg = "Cache-Control"
    /\ t[k + 3].op = "end"
    /\ \A j \in (k + 1)..(k + 3) : t[j].by = "get_asset_handler"
    /\ q.res.headers["Content-Type"] = opts.type
    /\ q.res.headers["Cache-Control"] = opts.cache
    /\ q.res.headers["Link"] = << >>
    /\ q.res.ends = 1
    /\ q.res.body.kind = "bytes"
    /\ q.res.body.bytes = fn(opts, q.req.pathname)
    /\ q.pending = {}

\* C3: an asset handler whose predicate is false on req.pathname calls
\* proceed() and sets no header and writes no body; one whose predicate is
\* true sets Content-Type and Cache-Control to its fixed values, ends the
\* response with resolver(pathname) and never calls proceed(), so that
\* nothing later runs for the request.  GET /client/<chunk> with the chunk
\* in client.chunks is answered 200, application/javascript,
\* max-age=31536000, with the cached bytes.
C3_AssetHandler ==
  \A r \in ProdReqs :
    LET q == rq[r]
        t == q.trace
    IN
      /\ \A k \in Events(t, "call") :
           t[k].at \in AssetIndexes =>
             IF filter(AssetOpts(t[k].arg), q.req.pathname)
             THEN Answered(q, k, AssetOpts(t[k].arg))
             ELSE Delegated(t, t[k].at)
      /\ (q.pc = "open" /\ q.req.pathname = MainFile("v1")) =>
           /\ q.res.sent = 200
           /\ q.res.headers["Content-Type"] = << "application/javascript" >>
           /\ q.res.headers["Cache-Control"] = << "max-age=31536000" >>
           /\ q.res.body.bytes = << "main.js of ", "v1" >>

\* the chunk handler has answered a request after the two handlers before it
\* delegated
C3_Witness ==
  \E r \in ProdReqs :
    /\ rq[r].req.pathname = MainFile("v1")
    /\ rq[r].res.ends = 1
    /\ Proceeds(rq[r].trace, 1) = 1 /\ Proceeds(rq[r].trace, 2) = 1
    /\ Proceeds(rq[r].trace, 3) = 0

\* C4 as stated: a request whose pathname satisfies an asset predicate and is
\* absent from the asset cache falls through to the not-found renderer
\* (status 404) and is not answered by the asset handler.
C4_Claim ==
  \A r \in ProdReqs :
    LET q == rq[r] IN
      ( /\ Settled(q)
        /\ filter(AssetOpts("chunks"), q.req.pathname)
        /\ q.req.pathname \notin DOMAIN asset_cache.client.chunks )
      => /\ q.res.sent = 404
         /\ By(q.trace, "get_asset_handler") \cap Events(q.trace, "end") = {}

\* the index of the first route whose test is true on p, 0 when there is none
RECURSIVE FirstMatch(_, _)
FirstMatch(p, k) ==
  IF k > Len(routes) THEN 0
  ELSE IF p \in routes[k].matches THEN k
  ELSE FirstMatch(p, k + 1)

\* the then-callback of find_route has run for the request
Dispatched(q) ==
  /\ \E k \in Events(q.trace, "call") : q.trace[k].arg = "find_route"
  /\ "route" \notin q.pending

\* C5: route matching is first-match-wins over registration order: the route
\* dispatched is the route of lowest index whose test(pathname) is true, no
\* route after it is tested, dispatched or has its exec called; of two routes
\* the first of which matches a superset of the second, the first is selected.
C5_FirstMatchWins ==
  \A r \in ProdReqs :
    LET q == rq[r]
        t == q.trace
        m == FirstMatch(q.req.pathname, 1)
    IN
      /\ Cardinality(Events(t, "exec")) <= 1
      /\ \A e \in Events(t, "exec") :
           /\ t[e].at = m
           /\ q.dispatch.route = m
           /\ \A k \in Events(t, "test") : t[k].at <= m
           /\ \A j1, j2 \in 1..Len(routes) :
                (j1 < j2 /\ routes[j2].matches \subseteq routes[j1].matches)
                  => t[e].at # j2
      /\ (Dispatched(q) /\ m > 0 /\ ~Threw(t, "test")) =>
           \E e \in Events(t, "exec") : t[e].at = m
      /\ (Dispatched(q) /\ m = 0) => Events(t, "exec") = {}

\* the catch-all, registered first, has been dispatched for a pathname that
\* a later route matches as well
C5_Witness ==
  \E r \in ProdReqs :
    /\ Len(routes) >= 2
    /\ rq[r].req.pathname \in routes[1].matches \cap routes[2].matches
    /\ \E e \in Events(rq[r].trace, "exec") : rq[r].trace[e].at = 1

\* the pathname matches no asset predicate and no route
NoMatch(q) ==
  /\ \A name \in { "index", "service_worker", "chunks" } :
       ~filter(AssetOpts(name), q.req.pathname)
  /\ FirstMatch(q.req.pathname, 1) = 0

\* C6: a request whose pathname matches no asset predicate and no route
\* (every test returns false) is ended with status 404; the rendered document
\* gets the request method and the raw req.url, query string included, and
\* the entry-script tag of the asset cache.
C6_NotFound ==
  \A r \in ProdReqs :
    LET q == rq[r] IN
      (Settled(q) /\ NoMatch(q) /\ ~Threw(q.trace, "test")) =>
        /\ q.res.sent = 404
        /\ q.res.statusCode = 404
        /\ q.res.ends = 1
        /\ q.res.body.kind = "document"
        /\ q.res.body.template = 404
        /\ q.res.body.props.method = q.req.method
        /\ q.res.body.props.url = q.req.url
        /\ q.res.body.props.scripts = ScriptTag(asset_cache.client.main_file)

\* a POST of an unknown path with a query string has been answered 404
C6_Witness ==
  \E r \in ProdReqs :
    /\ Settled(rq[r])
    /\ rq[r].req.url = << "/nope", "?", "x=1" >>
    /\ rq[r].req.pathname = << "/nope" >>
    /\ rq[r].req.method = "POST"
    /\ Len(routes) > 0
    /\ rq[r].res.sent = 404

\* C7 as stated: an exception raised, synchronously or not, anywhere in route
\* matching and dispatch (test, exec, module load, preload, render, endpoint
\* handler) is caught once at the dispatcher and becomes a response of status
\* 500 rendered by the error renderer; none escapes the dispatcher or leaves
\* the request without a response.
C7_Claim ==
  \A r \in ProdReqs :
    LET q == rq[r] IN
      (Settled(q) /\ Events(q.trace, "throw") # {}) =>
        /\ q.escaped = 0
        /\ q.res.ends >= 1
        /\ q.res.sent = 500
        /\ q.res.body.kind = "document"
        /\ q.res.body.template = 500

\* a string without an HTML special character written as it is
Range(s) == { s[k] : k \in 1..Len(s) }

IsRaw(s) == Range(s) \cap HtmlSpecial # {}

\* C8 as stated, for an Error object: an exception thrown inside render
\* produces a 500 response whose body has the HTML-escaped message and no raw
\* error text: title, error and stack carry error text only in escaped form.
C8_Claim ==
  \A r \in ProdReqs :
    LET q == rq[r] IN
      (Settled(q) /\ Threw(q.trace, "render") /\ q.err.kind = "Error") =>
        /\ q.res.sent = 500
        /\ q.res.body.kind = "document"
        /\ q.res.body.template = 500
        /\ ~IsRaw(q.res.body.props.title)
        /\ ~IsRaw(q.res.body.props.error)
        /\ ~IsRaw(q.res.body.props.stack)

\* the export name the claim gives for a request method
ExportName(method) ==
  CASE method = "GET"    -> "get"
    [] method = "POST"   -> "post"
    [] method = "DELETE" -> "del"

\* the dispatcher (handle_route, find_route and its catch-callback) ends the
\* response or calls proceed() after event k
DispatcherActsAfter(t, k) ==
  \E j \in (k + 1)..Len(t) :
    /\ t[j].op \in { "end", "proceed" }
    /\ t[j].by \in { "handle_route", "find_route", "catch" }

\* the handler of an endpoint is the export named for the method, del for
\* DELETE, called once, with the continuation of the dispatcher
EndpointCalled(q) ==
  LET t == q.trace IN
    /\ Cardinality(Events(t, "handler")) <= 1
    /\ \A k \in Events(t, "handler") :
         /\ t[k].arg = ExportName(q.req.method)
         /\ t[k].arg # "delete"
         /\ routes[q.dispatch.route].type = "endpoint"
    /\ \A k \in By(t, "endpoint") :
         t[k].op = "proceed" => handlers[t[k].at + 1] = "find_route"
    /\ ( /\ Dispatched(q)
         /\ q.dispatch.route > 0
         /\ routes[q.dispatch.route].type = "endpoint"
         /\ ExportName(q.req.method) \in ServerEntry(routes[q.dispatch.route].id).exports
         /\ ~Threw(t, "exec") /\ ~Threw(t, "require") )
       => Cardinality(Events(t, "handler")) = 1

\* the call of the endpoint handler threw (not a later task of the handler)
ThrewInCall(t) ==
  \E k \in Events(t, "throw") : t[k].by = "endpoint" /\ t[k].arg # "later"

\* C9 as stated: the export name is the lower-cased method, DELETE giving
\* 'del'; the export, when present, is invoked exactly once with (request,
\* response, proceed), and the dispatcher itself then neither ends the
\* response nor calls proceed().
C9_Original ==
  \A r \in ProdReqs :
    /\ EndpointCalled(rq[r])
    /\ \A k \in Events(rq[r].trace, "handler") : ~DispatcherActsAfter(rq[r].trace, k)

\* C9 as amended: the same, the dispatcher neither ending the response nor
\* calling proceed() after a handler that does not throw synchronously.
C9_Endpoint ==
  \A r \in ProdReqs :
    /\ EndpointCalled(rq[r])
    /\ ~ThrewInCall(rq[r].trace) =>
         \A k \in Events(rq[r].trace, "handler") : ~DispatcherActsAfter(rq[r].trace, k)

\* a DELETE has been given to the export del, which ended the response and
\* returned
C9_Witness ==
  \E r \in ProdReqs :
    /\ Settled(rq[r])
    /\ rq[r].req.method = "DELETE"
    /\ rq[r].dispatch.export = "del"
    /\ rq[r].res.ends = 1
    /\ rq[r].res.body.kind = "bytes"
    /\ ~ThrewInCall(rq[r].trace)

\* an endpoint route was dispatched whose module has no export for the method
NoExport(q) ==
  /\ Dispatched(q)
  /\ q.dispatch.route > 0
  /\ routes[q.dispatch.route].type = "endpoint"
  /\ ExportName(q.req.method) \notin ServerEntry(routes[q.dispatch.route].id).exports
  /\ Events(q.trace, "throw") = {}

\* C10: when an endpoint route matches and its module has no export for the
\* method, the dispatcher calls proceed() and the request ends as not found,
\* status 404 (not 405, not 500), and no further route is scanned.
C10_MethodNotImplemented ==
  \A r \in ProdReqs :
    LET q == rq[r]
        t == q.trace
    IN NoExport(q) =>
         /\ \E k \in Events(t, "proceed") : t[k].by = "handle_route"
         /\ Events(t, "handler") = {}
         /\ q.res.sent = 404
         /\ q.res.statusCode = 404
         /\ q.res.ends = 1
         /\ q.res.body.kind = "document"
         /\ q.res.body.template = 404
         /\ \A k \in Events(t, "test") : t[k].at <= q.dispatch.route
         /\ Cardinality(Events(t, "exec")) = 1

\* a POST of /api, which has no post export, has been answered 404 with a
\* later route that matches /api left alone
C10_Witness ==
  \E r \in ProdReqs :
    /\ NoExport(rq[r])
    /\ rq[r].req.method = "POST"
    /\ rq[r].dispatch.route < Len(routes)
    /\ rq[r].req.pathname \in routes[Len(routes)].matches
    /\ rq[r].res.sent = 404

(***************************************************************************)
(* Claims about the page with preload (Spec).                              *)
(***************************************************************************)
\* the events of trace t with the given op, in the order of the trace
EventSeq(t, op) == SelectSeq(t, LAMBDA e : e.op = op)

\* what templates.stream has written once the first n slots are flushed
RECURSIVE Written(_, _)
Written(slots, n) ==
  IF n = 0 THEN << TemplatePart(0) >>
  ELSE Written(slots, n - 1) \o << slots[n], TemplatePart(n) >>

\* C11: for a page route with preload the slot bytes go out in the order
\* scripts, html, head, styles whatever the order in which the four slot
\* promises settle: a slot is written only after it has settled and after
\* the slot before it has been written, a slot that settles early being
\* kept back until then.
C11_SlotOrder ==
  \A r \in ProdReqs :
    LET q == rq[r]
        t == q.trace
        f == EventSeq(t, "flush")
    IN
      /\ \A j \in 1..Len(f) : j <= Len(SlotNames) /\ f[j].arg = SlotNames[j]
      /\ \A k \in Events(t, "flush") :
           \E j \in 1..(k - 1) : t[j].op = "settle" /\ t[j].arg = t[k].arg
      /\ q.stream.state # "off" =>
           /\ q.stream.flushed = Len(f)
           /\ q.res.chunks = Written(q.stream.slots, q.stream.flushed)
           /\ \A k \in 1..q.stream.flushed : q.stream.outcome[k] = "resolved"

\* head settled first and scripts last, and the whole document has been
\* written, scripts first
C11_Witness ==
  \E r \in ProdReqs :
    /\ rq[r].stream.state = "done"
    /\ rq[r].stream.settled[1] = 3
    /\ rq[r].stream.settled[4] = 1
    /\ Len(rq[r].res.chunks) = 9
    /\ rq[r].res.chunks[2] = rq[r].stream.slots[1]
    /\ rq[r].res.chunks[6] = rq[r].stream.slots[3]

\* the preloaded value of the given name
PreloadedNamed(name) == CHOOSE p \in Preloaded : p.name = name

\* the scripts slot the claim gives for a preloaded value
ExpectedScripts(p) ==
  IF p.serializable
  THEN << "<script>__SAPPER__ = { preloaded: ", "serialized ", p.name,
          " };</script>" >> \o ScriptTag(MainFile("v1"))
  ELSE ScriptTag(MainFile("v1"))

\* C12: a failure to serialize the preloaded value raises nothing up to the
\* response: render is still called with the merged data, the response does
\* not become a 500, and the scripts slot is the bare entry-script tag with
\* no inline __SAPPER__ block; when serialization succeeds the scripts slot
\* is the inline data script followed by the entry-script tag.
C12_SerializeFallback ==
  \A r \in ProdReqs :
    LET q == rq[r]
        t == q.trace
    IN \A k \in Events(t, "resolve") :
         LET p == PreloadedNamed(t[k].arg) IN
           /\ k + 1 <= Len(t)
           /\ t[k + 1].op = "render" /\ t[k + 1].arg = p.name
           /\ ~Threw(t, "render") =>
                /\ q.stream.promise = "fulfilled"
                /\ q.stream.shared.data.preloaded = p.name
                /\ q.res.statusCode = 200
                /\ By(t, "catch") = {}
                /\ q.escaped = 0
                /\ q.stream.outcome[1] = "resolved" =>
                     q.stream.slots[1] = ExpectedScripts(p)
                /\ Settled(q) =>
                     /\ q.res.sent = 200
                     /\ q.res.ends = 1
                     /\ q.res.chunks[2] = ExpectedScripts(p)

\* a page whose preloaded value cannot be serialized has been streamed to
\* the end with status 200 and the bare entry-script tag
C12_Witness ==
  \E r \in ProdReqs :
    /\ Settled(rq[r])
    /\ \E k \in Events(rq[r].trace, "resolve") : rq[r].trace[k].arg = "cyclic"
    /\ rq[r].stream.state = "done"
    /\ rq[r].res.sent = 200
    /\ rq[r].res.chunks[2] = ScriptTag(MainFile("v1"))

(***************************************************************************)
(* Claims about the middleware of connect_dev (SpecDev).                   *)
(***************************************************************************)
\* the handlers that read the asset cache
CacheReaders == { "index", "service_worker", "chunks", "find_route", "handle_not_found" }

\* the caches of the builds that have completed
BuiltVersions == { Versions[g] : g \in { k \in 1..Len(watcher) : watcher[k] = "resolved" } }

\* C13: in development mode no asset handler, route dispatcher or not-found
\* renderer runs for a request, and no field of the asset cache is read,
\* before the first build of the watcher has completed; every read gets a
\* fully built cache, whether the request arrived before the build
\* completed or after.
C13_WaitsForBuild ==
  \A r \in Reqs :
    LET q == rq[r]
        t == q.trace
    IN
      /\ \A k \in Events(t, "call") :
           t[k].arg \in CacheReaders =>
             /\ watcher[1] = "resolved"
             /\ asset_cache.built
             /\ \E j \in 1..(k - 1) : t[j].op = "proceed" /\ t[j].by = "wait_ready"
      /\ \A j \in 1..Len(q.reads) : q.reads[j].version \in BuiltVersions
      /\ \A k \in Events(t, "throw") : t[k].by \notin CacheReaders \cup { "get_asset_handler" }

\* a request that came before the first build completed and one that came
\* after it have both been answered from the cache of that build
C13_Witness ==
  /\ \E k \in Events(rq["r1"].trace, "wait") : rq["r1"].trace[k].arg = "pending"
  /\ \E k \in Events(rq["r2"].trace, "wait") : rq["r2"].trace[k].arg = "resolved"
  /\ \A r \in Reqs :
       /\ rq[r].wait = 1
       /\ rq[r].req.url = << "/index.html" >>
       /\ rq[r].res.ends = 1
       /\ rq[r].res.body = Bytes(AssetCache("v1").client.index)
       /\ Len(rq[r].reads) = 1

(***************************************************************************)
(* Claims about the scheduling of find_route (Spec).                       *)
(***************************************************************************)
\* the response as the host made it, but for the Content-Type of find_route
Untouched(res) ==
  /\ res.statusCode = 200
  /\ res.sent = 0
  /\ res.chunks = << >>
  /\ res.ends = 0
  /\ res.headers = [ h \in HeaderNames |->
                       IF h = "Content-Type" THEN << "text/html" >> ELSE << >> ]

\* C14: find_route returns having only set Content-Type to text/html; every
\* route test and exec, the module load, every write of the response and
\* every proceed() of the dispatcher happens in a later task, whether a
\* route matches or not.
C14_Deferred ==
  \A r \in ProdReqs :
    LET q == rq[r]
        t == q.trace
    IN \A k \in Events(t, "call") :
         t[k].arg = "find_route" =>
           /\ k + 1 <= Len(t)
           /\ t[k + 1].op = "setHeader" /\ t[k + 1].arg = "Content-Type"
           /\ t[k + 1].by = "find_route"
           /\ Len(t) > k + 1 => t[k + 2].op = "then"
           /\ "route" \in q.pending <=> Len(t) = k + 1
           /\ "route" \in q.pending =>
                /\ Untouched(q.res)
                /\ q.i = t[k].at
                /\ q.dispatch.route = 0
                /\ q.reads = << >>
           /\ \A j \in 1..Len(t) :
                ( \/ t[j].op \in { "test", "exec", "throw", "handler" }
                  \/ t[j].by \in { "find_route", "handle_route", "catch", "endpoint",
                                   "handle_not_found", "templates.stream" } )
                => j = k + 1 \/ (j >= k + 2 /\ t[k + 2].op = "then")

\* find_route has returned for a path no route matches, and nothing else has
\* happened yet
C14_Witness ==
  \E r \in ProdReqs :
    /\ "route" \in rq[r].pending
    /\ Len(routes) > 0
    /\ rq[r].req.pathname = << "/nope" >>
    /\ FirstMatch(rq[r].req.pathname, 1) = 0
    /\ rq[r].res.headers["Content-Type"] = << "text/html" >>

(***************************************************************************)
(* Claims about set_req_pathname (Spec).                                   *)
(***************************************************************************)
\* the part of a URL before its first "?"
BeforeQuery(url) ==
  LET k == IndexFrom(url, { "?" }, 1) IN
    IF k = 0 THEN url ELSE SubSeq(url, 1, k - 1)

\* C15 as stated: after set_req_pathname req.pathname is req.url without its
\* query string: for every URL it is the part of req.url before the first
\* "?", it has no "?" in it, and it is computed once per request, before any
\* asset predicate or route test reads it.
C15_Claim ==
  \A r \in ProdReqs :
    LET q == rq[r]
        t == q.trace
    IN q.pc = "open" =>
         /\ q.req.pathname = BeforeQuery(q.req.url)
         /\ "?" \notin Range(q.req.pathname)
         /\ Cardinality({ k \in Events(t, "call") : t[k].arg = "set_req_pathname" }) = 1
         /\ t[1].op = "call" /\ t[1].arg = "set_req_pathname"

(***************************************************************************)
(* Claims about the shared computation of the slots (Spec).                *)
(***************************************************************************)
\* the slots that have settled with the given outcome
SlotsWith(q, outcome) ==
  { k \in 1..Len(q.stream.outcome) : q.stream.outcome[k] = outcome }

\* C16: on the streaming page path the four slot promises are projections
\* of the one computation preload, serialize, merge, render: render is
\* called once, and only after the preload result has resolved; when preload
\* throws or rejects, or render throws, every one of the four slot promises
\* fails and none gets a value.
C16_SharedComputation ==
  \A r \in ProdReqs :
    LET q == rq[r]
        t == q.trace
    IN Events(t, "preload") # {} =>
         /\ Cardinality(Events(t, "render")) <= 1
         /\ \A k \in Events(t, "render") :
              /\ k > 1 /\ t[k - 1].op = "resolve"
              /\ t[k].by = "preload_then"
         /\ q.stream.promise = "fulfilled" =>
              /\ Cardinality(Events(t, "render")) = 1
              /\ SlotsWith(q, "rejected") = {}
              /\ \A k \in SlotsWith(q, "resolved") :
                   q.stream.slots[k] = SlotValue(k, q.stream.shared, MainFile("v1"))
         /\ (Threw(t, "preload") \/ Threw(t, "render")) =>
              /\ SlotsWith(q, "resolved") = {}
              /\ q.stream.promise # "fulfilled"
              /\ "preload" \notin q.pending /\ q.pending \cap Slots = {} =>
                   SlotsWith(q, "pending") = {}

\* render has thrown after preload resolved, and the four slot promises have
\* all been rejected
C16_Witness ==
  \E r \in ProdReqs :
    /\ Threw(rq[r].trace, "render")
    /\ Events(rq[r].trace, "resolve") # {}
    /\ SlotsWith(rq[r], "rejected") = 1..4

(***************************************************************************)
(* Claims about the failures of a dispatch (Spec).                         *)
(***************************************************************************)
\* the endpoint handler itself ends the response or calls next() at most once
HandlerActsOnce(t) ==
  Cardinality({ k \in By(t, "endpoint") : t[k].op \in { "end", "proceed" } }) <= 1

\* the response was ended, written to or given a status before event k, by
\* other code than the catch-callback
TouchedBefore(t, k) ==
  \E j \in 1..(k - 1) :
    /\ t[j].op \in { "end", "write", "statusCode" }
    /\ t[j].by # "catch"

\* C17 as stated: every failure of a dispatch goes through the one catch
\* point and no response is written twice: on every path through the chain
\* the response body is ended at most once, and the 500 renderer never ends
\* a response that the failing stage has already ended or given a status.
C17_Claim ==
  \A r \in ProdReqs :
    LET q == rq[r]
        t == q.trace
    IN HandlerActsOnce(t) =>
         /\ q.res.ends <= 1
         /\ \A k \in Events(t, "end") : t[k].by = "catch" => ~TouchedBefore(t, k)

(***************************************************************************)
(* Claims about requests in flight together (SpecCompose).                 *)
(***************************************************************************)
\* the request's cursor and the handlers called for it are those of its own
\* proceed() calls: what they would be if the request were alone
OwnCursor(q) ==
  /\ q.i = Cardinality(Events(q.trace, "proceed"))
  /\ \A k \in Events(q.trace, "proceed") : AfterCursor(q.trace, k + 1)
  /\ \A k \in Events(q.trace, "call") \cup Events(q.trace, "fallback") :
       q.trace[k].at = Cardinality({ j \in Events(q.trace, "proceed") : j < k })

\* C18: requests are handled independently: with several requests in flight
\* through one composed handler, their continuations interleaved in any
\* order, a step of one request (its arrival, a proceed() of one of its
\* handlers) changes nothing of another request, and leaves the request with
\* the cursor and the handlers of its own proceed() calls alone.
C18_Independent ==
  [][ \A r \in Reqs :
        rq'[r] # rq[r] =>
          /\ \A x \in Reqs \ { r } : rq'[x] = rq[x]
          /\ OwnCursor(rq'[r]) ]_vars

\* two requests are in flight in a chain of three handlers, the first at its
\* third handler and the second at its second
C18_Witness ==
  /\ Len(handlers) = 3
  /\ rq["r1"].pc = "open" /\ rq["r2"].pc = "open"
  /\ rq["r1"].i = 2 /\ rq["r2"].i = 1
  /\ Events(rq["r1"].trace, "fallback") = {}
  /\ Events(rq["r2"].trace, "fallback") = {}

(***************************************************************************)
(* Claims about the end of every request (Spec).                           *)
(***************************************************************************)
\* C19 as stated, for the requests no endpoint handler is called for (what
\* such a handler does with the response is its own matter): once every
\* external function has returned, settled or thrown, the request has come
\* to its end: the response is ended, or the outer fallback was called; a
\* value thrown during dispatch, of any shape, has ended the response with
\* status 500.
C19_Claim ==
  \A r \in ProdReqs :
    LET q == rq[r]
        t == q.trace
    IN (Settled(q) /\ Events(t, "handler") = {}) =>
         /\ q.res.ends >= 1 \/ Events(t, "fallback") # {}
         /\ ~(q.res.ends >= 1 /\ Events(t, "fallback") # {})
         /\ Events(t, "throw") # {} => (q.res.ends >= 1 /\ q.res.sent = 500)

(***************************************************************************)
(* Claims about the snapshot of the asset cache (SpecDev).                 *)
(***************************************************************************)
\* the reads of asset_cache by the dispatcher
DispatcherReads(q) == SelectSeq(q.reads, LAMBDA x : x.by = "find_route")

\* C20: for one page request the dispatcher calls the asset-cache provider
\* once, at dispatch, and uses that one snapshot for the server module, the
\* Link header and the entry-script tag of the scripts slot; when a rebuild
\* swaps the current asset cache while preload is pending, the Link header
\* and the scripts slot of the response still name the same entry script.
C20_Snapshot ==
  \A r \in Reqs :
    LET q == rq[r]
        t == q.trace
        d == DispatcherReads(q)
    IN
      /\ Len(d) <= 1
      /\ \A e \in Events(t, "exec") :
           /\ Len(d) = 1
           /\ q.dispatch.entry = d[1].version
           /\ q.dispatch.main_file = MainFile(d[1].version)
           /\ routes[t[e].at].type = "page" =>
                /\ q.res.headers["Link"] =
                     LinkHeader(AssetCache(d[1].version).client, routes[t[e].at].id)
                /\ 1 \in SlotsWith(q, "resolved") =>
                     q.stream.slots[1] =
                       ScriptsSlot(q.stream.shared.serialized, MainFile(d[1].version))

\* the page request was dispatched with the cache of the first build; the
\* cache of the rebuild became the current one while its preload was
\* pending; its scripts slot names the entry script of the first build
C20_Witness ==
  /\ rq["r1"].req.url = << "/blog" >>
  /\ Len(DispatcherReads(rq["r1"])) = 1
  /\ DispatcherReads(rq["r1"])[1].version = "v1"
  /\ rq["r1"].resolved_under = "v2"
  /\ 1 \in SlotsWith(rq["r1"], "resolved")
  /\ rq["r1"].stream.slots[1] =
       ScriptsSlot(rq["r1"].stream.shared.serialized, MainFile("v1"))
  /\ rq["r1"].res.headers["Link"] = LinkHeader(AssetCache("v1").client, "blog")

====
